---- MODULE Spec2Model ----
(***************************************************************************)
(* into-ledger: duplicate detection against the journal and the            *)
(* interactive categorization loop with its boltdb staging store.          *)
(*                                                                         *)
(* Strings are sequences of one-character strings; a time.Time is a number *)
(* of hours (every date of the program is a midnight, UTC); an amount is   *)
(* an integer number of currency units.                                    *)
(***************************************************************************)
EXTENDS Integers, Sequences, FiniteSets, TLC

VARIABLES
    \* ---- removeDuplicates (main.go:1538) ----
    ptxns,      \* p.txns: the transactions of the journal
    csvTxns,    \* the transactions parsed from the CSV file, as handed in
    dupWithin,  \* the -within flag, in hours
    deduped,    \* the slice removeDuplicates returns
    reported,   \* the number it prints as "duplicates found and ignored"
    dpc,        \* "start" before the call, "done" after it
    \* ---- main from the sort by description on (main.go:1894) ----
    txns,       \* the batch under categorization
    disk,       \* the temporary files that exist: name -> boltdb bucket
    tf,         \* the name of this run's temporary file
    pc,         \* where the program stands
    cursor,     \* i of the review loop (main.go:899), 0-based
    res,        \* res of the review loop (main.go:901): what categorizeTxn
                \* returned last, "" before it has returned in this pass
    view,       \* "hits": the per-transaction shortcuts; "all": *short
    label,      \* label of printAndGetResult
    category,   \* category of printAndGetResult
    repeat,     \* repeat of printAndGetResult
    upto,       \* upto of the review loop
    out,        \* the transactions written to the output file, in order
    putKeys,    \* history: every key ever handed to writeToDB in this run
    committed,  \* history: key -> the <<To, From>> last committed for it
    \* ---- topHits (main.go:410) and classifyTxn (main.go:842) ----
    scores,     \* what p.cl.LogScores returned, one score per class
    hits,       \* what topHits returned: positions in p.classes
    guess,      \* hits[0] as classifyTxn takes it, 0 before
    rpc,        \* "scored" before topHits, "ranked", then "classified"
    \* ---- sanitize (main.go:940) ----
    sanIn,      \* a: the string handed to sanitize
    sanOut,     \* sanitize(a)
    sanAgain,   \* sanitize(sanitize(a))
    spc,        \* "in", then "once", then "twice"
    \* ---- generateClasses (main.go:362) within main (main.go:1828) ----
    journal,    \* p.txns as parseTransactions left them
    classes,    \* p.classes
    tpc,        \* "parsed", then "fatal" or "trained", "scored", "review"
    \* ---- ledgerFormat (main.go:928) ----
    fmtTxn,     \* t: the transaction to write
    fmtOut,     \* the text returned for it
    fpc,        \* "in", then "out"
    \* ---- converter (csv.go:16) under a reader (main.go:192) ----
    csvInput,   \* the bytes the underlying reader holds in all
    delegate,   \* c.delegate: the bytes it has not handed out yet
    remaining,  \* c.remaining
    escaped,    \* c.escaped
    cstate,     \* c.s: "start", "quoted" or "escape"
    received,   \* the bytes the caller of Read has been given, in order
    cpc         \* "reading", then "eof" once Read has returned io.EOF

dedupVars == <<ptxns, csvTxns, dupWithin, deduped, reported, dpc>>

mainVars == <<txns, disk, tf, pc, cursor, res, view, label, category, repeat,
              upto, out, putKeys, committed>>

rankVars == <<scores, hits, guess, rpc>>

sanVars == <<sanIn, sanOut, sanAgain, spc>>

trainVars == <<journal, classes, tpc>>

fmtVars == <<fmtTxn, fmtOut, fpc>>

csvVars == <<csvInput, delegate, remaining, escaped, cstate, received, cpc>>

\* what each part leaves alone
notDedupVars == <<mainVars, rankVars, sanVars, trainVars, fmtVars, csvVars>>
notMainVars == <<dedupVars, rankVars, sanVars, trainVars, fmtVars, csvVars>>
notRankVars == <<dedupVars, mainVars, sanVars, trainVars, fmtVars, csvVars>>
notSanVars == <<dedupVars, mainVars, rankVars, trainVars, fmtVars, csvVars>>
notTrainVars == <<dedupVars, mainVars, rankVars, sanVars, fmtVars, csvVars>>
notFmtVars == <<dedupVars, mainVars, rankVars, sanVars, trainVars, csvVars>>
notCsvVars == <<dedupVars, mainVars, rankVars, sanVars, trainVars, fmtVars>>

vars == <<ptxns, csvTxns, dupWithin, deduped, reported, dpc,
          txns, disk, tf, pc, cursor, res, view, label, category, repeat,
          upto, out, putKeys, committed,
          scores, hits, guess, rpc,
          sanIn, sanOut, sanAgain, spc,
          journal, classes, tpc,
          fmtTxn, fmtOut, fpc,
          csvInput, delegate, remaining, escaped, cstate, received, cpc>>

-----------------------------------------------------------------------------
(* Bounds *)

MaxHist == 2     \* journal transactions
MaxCand == 2     \* CSV transactions handed to removeDuplicates
MaxBatch == 3    \* transactions of the batch under categorization
MaxDesc == 3     \* runes of a string handed to sanitize
MaxJournal == 3  \* journal transactions handed to generateClasses
MaxInput == 4    \* bytes the underlying reader of the converter holds
MaxRead == 2     \* len(p) of a call of converter.Read
BufLen == 3      \* len(c.buf)

-----------------------------------------------------------------------------
(* Characters and strings *)

Letters == {"a", "b", "A"}
Digits  == {"1"}
Puncts  == {"*", ":", "/", ".", "-"}

\* sanitize's strings.Map callback: TRUE where the rune is kept.
SanitizeKeeps(r) == r \in Letters \/ r \in Digits \/ r \in Puncts

\* every other rune replaced by a dash instead of dropped
sanitizeSubst(a) ==
    [i \in 1..Len(a) |-> IF SanitizeKeeps(a[i]) THEN a[i] ELSE "-"]

\* sanitize (main.go:940-966): strings.Map drops the runes mapped to -1
sanitize(a) == SelectSeq(a, SanitizeKeeps)

Abs(x) == IF x < 0 THEN -x ELSE x

-----------------------------------------------------------------------------
(* sort.Sort(byTime(..)): not stable, so any ordering by date can come out *)

Perms(n) == {f \in [1..n -> 1..n] : \A i, j \in 1..n : i # j => f[i] # f[j]}

byTimeLess(a, b) == a.Date < b.Date

\* the slice left in the order it came in
KeepOrder(s) == {s}

SortByTime(s) ==
    {[i \in 1..Len(s) |-> s[f[i]]] : f \in
        {g \in Perms(Len(s)) :
            \A i, j \in 1..Len(s) : i < j => ~byTimeLess(s[g[j]], s[g[i]])}}

-----------------------------------------------------------------------------
(* removeDuplicates *)

\* -24 * time.Hour of main.go:1547
WindowHours == 24

\* main.go:1546-1553: the journal from its first entry dated after `first`;
\* the whole journal when no entry is.
prevOf(p, first) ==
    IF \E i \in 1..Len(p) : p[i].Date > first
    THEN LET i0 == CHOOSE i \in 1..Len(p) :
                      /\ p[i].Date > first
                      /\ \A j \in 1..(i - 1) : ~(p[j].Date > first)
         IN  SubSeq(p, i0, Len(p))
    ELSE p

\* main.go:1556-1559
within(a, b, allowed) == Abs(a - b) <= allowed

\* foundFrom with the scan stopped at the first journal entry dated after the
\* candidate itself.
RECURSIVE foundFromStopsAtDate(_, _, _, _)
foundFromStopsAtDate(prev, t, allowed, k) ==
    IF k > Len(prev) THEN FALSE
    ELSE IF prev[k].Date > t.Date THEN FALSE
    ELSE IF /\ sanitize(t.Desc) = sanitize(prev[k].Desc)
            /\ within(prev[k].Date, t.Date, allowed)
            /\ Abs(prev[k].Cur) = Abs(t.Cur)
         THEN TRUE
    ELSE foundFromStopsAtDate(prev, t, allowed, k + 1)

\* main.go:1565-1575: the scan of prev for one candidate, from index k on.
RECURSIVE foundFrom(_, _, _, _)
foundFrom(prev, t, allowed, k) ==
    IF k > Len(prev) THEN FALSE
    ELSE IF prev[k].Date > t.Date + allowed THEN FALSE      \* break
    ELSE IF /\ sanitize(t.Desc) = sanitize(prev[k].Desc)
            /\ within(prev[k].Date, t.Date, allowed)
            /\ Abs(prev[k].Cur) = Abs(t.Cur)
         THEN TRUE                                          \* found, break
    ELSE foundFrom(prev, t, allowed, k + 1)

\* removeDuplicates with a journal entry used up by the candidate it
\* matches: the candidates from index k on against what is left of prev.
RECURSIVE keepConsuming(_, _, _, _)
keepConsuming(prev, cand, allowed, k) ==
    IF k > Len(cand) THEN <<>>
    ELSE LET t == cand[k]
             hit(i) == /\ sanitize(t.Desc) = sanitize(prev[i].Desc)
                       /\ within(prev[i].Date, t.Date, allowed)
                       /\ Abs(prev[i].Cur) = Abs(t.Cur)
             hitAt == {i \in 1..Len(prev) : hit(i)}
         IN  IF hitAt = {}
             THEN <<t>> \o keepConsuming(prev, cand, allowed, k + 1)
             ELSE LET i0 == CHOOSE i \in hitAt : \A j \in hitAt : i <= j
                      rest == [j \in 1..(Len(prev) - 1) |->
                                  IF j < i0 THEN prev[j] ELSE prev[j + 1]]
                  IN  keepConsuming(rest, cand, allowed, k + 1)

removeDuplicatesConsuming(p, cand, allowed) ==
    keepConsuming(prevOf(p, cand[1].Date - WindowHours), cand, allowed, 1)

\* main.go:1546-1581 on a journal p and candidates cand, both already sorted.
removeDuplicates(p, cand, allowed) ==
    LET prev == prevOf(p, cand[1].Date - WindowHours)
        keep(t) == ~foundFrom(prev, t, allowed, 1)
    IN  SelectSeq(cand, keep)

-----------------------------------------------------------------------------
(* The inputs of removeDuplicates *)

HistDates == {0, 24, 48, 72}
CandDates == {24, 48}
Tolerances == {24, 48}

HistTxns == [Date : HistDates, Desc : {<<"a", " ">>, <<"b">>}, Cur : {1, 2}]
CandTxns == [Date : CandDates, Desc : {<<"a">>}, Cur : {-1}]

SeqsUpTo(S, n) == UNION {[1..k -> S] : k \in 0..n}

idleRank == scores = <<>> /\ hits = <<>> /\ guess = 0 /\ rpc = "off"

idleSan == sanIn = <<>> /\ sanOut = <<>> /\ sanAgain = <<>> /\ spc = "off"

idleTrain == journal = <<>> /\ classes = {} /\ tpc = "off"

idleFmt == fmtTxn = <<>> /\ fmtOut = <<>> /\ fpc = "off"

idleCsv ==
    /\ csvInput = <<>> /\ delegate = <<>> /\ remaining = <<>>
    /\ escaped = <<>> /\ cstate = "off" /\ received = <<>> /\ cpc = "off"

idleMain ==
    /\ txns = <<>> /\ disk = {} /\ tf = 0 /\ pc = "off" /\ cursor = 0
    /\ res = "" /\ view = "hits" /\ label = <<>> /\ category = <<>>
    /\ repeat = FALSE /\ upto = 0 /\ out = <<>> /\ putKeys = {}
    /\ committed = {}

InitDedup ==
    /\ idleMain
    /\ idleRank /\ idleSan /\ idleTrain /\ idleFmt /\ idleCsv
    /\ ptxns \in SeqsUpTo(HistTxns, MaxHist)
    /\ csvTxns \in SeqsUpTo(CandTxns, MaxCand)
    /\ dupWithin \in Tolerances
    /\ deduped = <<>>
    /\ reported = 0
    /\ dpc = "start"

\* main.go:1539-1541
RemoveNothing ==
    /\ dpc = "start"
    /\ Len(csvTxns) = 0
    /\ deduped' = csvTxns
    /\ dpc' = "done"
    /\ UNCHANGED <<ptxns, csvTxns, dupWithin, reported>>
    /\ UNCHANGED notDedupVars

\* main.go:1543-1581
RemoveDuplicates ==
    /\ dpc = "start"
    /\ Len(csvTxns) > 0
    /\ \E p \in SortByTime(ptxns), cand \in SortByTime(csvTxns) :
          /\ ptxns' = p
          /\ deduped' = removeDuplicates(p, cand, dupWithin)
          /\ reported' = Len(cand) - Len(deduped')
    /\ dpc' = "done"
    /\ UNCHANGED <<csvTxns, dupWithin>>
    /\ UNCHANGED notDedupVars

NextDedup == RemoveNothing \/ RemoveDuplicates

SpecDedup == InitDedup /\ [][NextDedup]_vars

-----------------------------------------------------------------------------
(* Strings and numbers of the categorization loop.  A description is a     *)
(* sequence of characters; an account or a label is the sequence of its    *)
(* colon-separated segments, so strings.Join(.., ":") is concatenation and *)
(* the empty string is <<>>.                                               *)

IsLetter(r) == r \in Letters

\* lettersOnly.ReplaceAllString(d, "") with lettersOnly = [^a-zA-Z]+
\* (main.go:858)
lettersOnly(d) == SelectSeq(d, IsLetter)

RECURSIVE Join(_)
Join(c) == IF c = <<>> THEN <<>> ELSE Head(c) \o Join(Tail(c))

Ord(r) == CASE r = " " -> 32 [] r = "1" -> 49 [] r = "a" -> 97 [] r = "b" -> 98

\* strings.Compare
RECURSIVE Compare(_, _)
Compare(a, b) ==
    IF a = <<>> /\ b = <<>> THEN 0
    ELSE IF a = <<>> THEN -1
    ELSE IF b = <<>> THEN 1
    ELSE IF Ord(Head(a)) < Ord(Head(b)) THEN -1
    ELSE IF Ord(Head(a)) > Ord(Head(b)) THEN 1
    ELSE Compare(Tail(a), Tail(b))

\* the less function of main.go:1895-1903
byDescLess(a, b) ==
    LET cmp == Compare(lettersOnly(a.Desc), lettersOnly(b.Desc))
    IN  IF cmp # 0 THEN cmp < 0 ELSE a.Date > b.Date

\* math.Signbit of a non-zero amount
Signbit(x) == x < 0

\* Go's int, narrowed to 30 bits (TLC's integers are 32 bits wide): the
\* same two's-complement wrap-around, with every index and every cursor
\* delta of the program in range.
MaxInt == 2^29 - 1
MinInt == -(2^29)
WrapInt(x) == ((x - MinInt) % (2^30)) + MinInt

\* int(res) with .quit worth a single step
IntOfShortQuit(r) ==
    CASE r = "0"          -> {0}
      [] r = "1.0"        -> {1}
      [] r = "1.1"        -> {1}
      [] r = "-1.0"       -> {-1}
      [] r = "999999.0"   -> {1}
      [] r = "MaxFloat32" -> {MinInt, MaxInt}

\* int(res) for the values printAndGetResult returns.  math.MaxFloat32 does
\* not fit an int: the conversion is implementation-dependent, the smallest
\* int on amd64 and the largest on arm64.
IntOf(r) ==
    CASE r = "0"          -> {0}
      [] r = "1.0"        -> {1}
      [] r = "1.1"        -> {1}
      [] r = "-1.0"       -> {-1}
      [] r = "999999.0"   -> {999999}
      [] r = "MaxFloat32" -> {MinInt, MaxInt}

-----------------------------------------------------------------------------
(* Accounts, classifier and shortcuts *)

\* the ledger account of the -account flag (main.go:1857-1874)
Account == <<"Assets">>

Expenses == <<"Expenses">>
Food     == <<"Expenses", "Food">>
Small    == <<"Expenses", "Small">>

\* p.classes: the To accounts of the journal (main.go:362-377)
Classes == {Expenses, Food}

\* p.topHits(desc) of the trained classifier, for the descriptions of the batch
topHits(desc) ==
    CASE desc = <<"a">>      -> <<Food, Expenses>>
      [] desc = <<"a", "1">> -> <<Expenses>>
      [] OTHER               -> <<Expenses, Food>>

Default == <<"default">>
Back    == <<".back">>
Quit    == <<".quit">>
ShowAll == <<".show all">>
Skip    == <<".skip">>
Google  == <<".google">>
Todo    == <<"TODO">>

\* setDefaultMappings (main.go:592-598): <<label, option>> pairs
setDefaultMappings == {<<Default, o>> : o \in {Back, Quit, ShowAll, Skip, Google}}

\* assignForAccount (main.go:164-176): the pairs an account adds to a tree
assignForAccount(account) ==
    {<<IF k = 1 THEN Default ELSE <<account[k - 1]>>, <<account[k]>>>> :
        k \in 1..Len(account)}

\* *short once the accounts and the journal are parsed (main.go:225, 251, 1774)
short == setDefaultMappings \cup UNION {assignForAccount(a) : a \in Classes}

\* The options some key maps to under label l (ks.MapsTo), in the view v of
\* transaction t: the fresh shortcuts of categorizeTxn (main.go:810-831) or
\* *short; with TODO once two levels are selected (main.go:710-712).
Options(v, l, c, t) ==
    (IF v = "hits"
     THEN IF l = Default
          THEN {p[2] : p \in setDefaultMappings}
                 \cup {t.AISuggestions[i] : i \in 1..Len(t.AISuggestions)}
                 \cup {topHits(t.Desc)[i] : i \in 1..Len(topHits(t.Desc))}
          ELSE {}
     ELSE {p[2] : p \in {q \in short : q[1] = l}})
    \cup (IF Len(c) = 2 THEN {Todo} ELSE {})

\* ks.HasLabel(l)
HasLabel(v, l) ==
    IF v = "hits" THEN l = Default ELSE \E p \in short : p[1] = l

-----------------------------------------------------------------------------
(* The stage: the boltdb bucket of this run's temporary file *)

Stage == (CHOOSE f \in disk : f.name = tf).bucket

\* a put that keeps the record a key already has
PutIfAbsent(bucket, t) ==
    IF \E r \in bucket : r.Key = t.Key THEN bucket ELSE bucket \cup {t}

\* b.Put(t.Key, ..) (main.go:677)
Put(bucket, t) == {r \in bucket : r.Key # t.Key} \cup {t}

\* b.Put left out: the files as they are
dropWrite(dk, t) == dk

\* writeToDB (main.go:671-681) on the files dk
writeToDB(dk, t) ==
    {IF f.name = tf THEN [f EXCEPT !.bucket = Put(@, t)] ELSE f : f \in dk}

\* the loop of main.go:911-914 left out: the files as they are
writeNone(dk, tx, lo, hi) == dk

RECURSIVE writeAll(_, _, _, _)
\* writeToDB of tx[j] for j from lo to hi (main.go:911-914)
writeAll(dk, tx, lo, hi) ==
    IF lo > hi THEN dk ELSE writeAll(writeToDB(dk, tx[lo]), tx, lo + 1, hi)

\* iterateDB (main.go:683-701): the bucket in key order
RECURSIVE iterateDB(_)
iterateDB(bucket) ==
    IF bucket = {} THEN <<>>
    ELSE LET r == CHOOSE x \in bucket : \A y \in bucket : x.Key <= y.Key
         IN  <<r>> \o iterateDB(bucket \ {r})

-----------------------------------------------------------------------------
(* classifyTxn and applyToSimilarTxns *)

\* classifyTxn without the test of t.Done
classifyTxnAlways(t) ==
    IF t.AIReason THEN t
    ELSE IF t.Cur < 0
         THEN [t EXCEPT !.To = topHits(t.Desc)[1]]
         ELSE [t EXCEPT !.From = topHits(t.Desc)[1]]

\* classifyTxn (main.go:842-856)
classifyTxn(t) ==
    IF t.AIReason THEN t
    ELSE IF ~t.Done
         THEN IF t.Cur < 0
              THEN [t EXCEPT !.To = topHits(t.Desc)[1]]
              ELSE [t EXCEPT !.From = topHits(t.Desc)[1]]
         ELSE t

\* main.go:863-867
classifyAll(tx) == [i \in 1..Len(tx) |-> classifyTxn(tx[i])]

\* applyToSimilarTxns comparing the descriptions as they are
RECURSIVE applyFromSameDesc(_, _, _)
applyFromSameDesc(tx, t, i) ==
    IF ~(i < Len(tx)) THEN [txns |-> tx, upto |-> Len(tx)]
    ELSE LET dst == tx[i + 1]
         IN  IF t.Desc # dst.Desc
             THEN [txns |-> tx, upto |-> i]
             ELSE IF Signbit(t.Cur) # Signbit(dst.Cur)
             THEN [txns |-> tx, upto |-> i]
             ELSE applyFromSameDesc(
                    [tx EXCEPT ![i + 1] =
                        IF t.Cur > 0
                        THEN [dst EXCEPT !.From = t.From, !.Done = TRUE]
                        ELSE [dst EXCEPT !.To = t.To, !.Done = TRUE]],
                    t, i + 1)

\* applyToSimilarTxns with a test of dst.Done that main.go:877-897 does not
\* have: a transaction already done keeps its category.
RECURSIVE applyFromNotDone(_, _, _)
applyFromNotDone(tx, t, i) ==
    IF ~(i < Len(tx)) THEN [txns |-> tx, upto |-> Len(tx)]
    ELSE LET dst == tx[i + 1]
         IN  IF lettersOnly(t.Desc) # lettersOnly(dst.Desc)
             THEN [txns |-> tx, upto |-> i]
             ELSE IF Signbit(t.Cur) # Signbit(dst.Cur)
             THEN [txns |-> tx, upto |-> i]
             ELSE applyFromNotDone(
                    [tx EXCEPT ![i + 1] =
                        IF dst.Done THEN dst
                        ELSE IF t.Cur > 0
                        THEN [dst EXCEPT !.From = t.From, !.Done = TRUE]
                        ELSE [dst EXCEPT !.To = t.To, !.Done = TRUE]],
                    t, i + 1)

\* applyToSimilarTxns (main.go:877-897) from index i on (0-based), the
\* committed transaction being t: the batch and the index it returns.
RECURSIVE applyFrom(_, _, _)
applyFrom(tx, t, i) ==
    IF ~(i < Len(tx)) THEN [txns |-> tx, upto |-> Len(tx)]
    ELSE LET dst == tx[i + 1]
         IN  IF lettersOnly(t.Desc) # lettersOnly(dst.Desc)
             THEN [txns |-> tx, upto |-> i]
             ELSE IF Signbit(t.Cur) # Signbit(dst.Cur)
             THEN [txns |-> tx, upto |-> i]
             ELSE applyFrom(
                    [tx EXCEPT ![i + 1] =
                        IF t.Cur > 0
                        THEN [dst EXCEPT !.From = t.From, !.Done = TRUE]
                        ELSE [dst EXCEPT !.To = t.To, !.Done = TRUE]],
                    t, i + 1)

applyToSimilarTxns(tx, from) == applyFrom(tx, tx[from + 1], from + 1)

-----------------------------------------------------------------------------
(* The batch handed to the categorizers *)

\* The rows of the CSV file that survive removeDuplicates (main.go:1879):
\* three that differ only outside the letters of the description, one of the
\* opposite sign, one of another description.
CsvRows ==
    {[Date |-> 48, Desc |-> <<"a">>,      Cur |-> -2],
     [Date |-> 24, Desc |-> <<"a", "1">>, Cur |-> -1],
     [Date |-> 0,  Desc |-> <<"a">>,      Cur |-> -1],
     [Date |-> 24, Desc |-> <<"b">>,      Cur |-> 1]}

IsInjective(s) == \A i, j \in 1..Len(s) : i # j => s[i] # s[j]

\* A transaction as parseTransactionsFromCSV builds it (main.go:535-578)
\* with its account side set (main.go:1870-1874).  Keys are random and
\* unique; here the k-th transaction of the sorted batch has key k.
NewTxn(k, r) ==
    [Key |-> k, Date |-> r.Date, Desc |-> r.Desc, Cur |-> r.Cur,
     To   |-> IF r.Cur > 0 THEN Account ELSE <<>>,
     From |-> IF r.Cur > 0 THEN <<>> ELSE Account,
     Done |-> FALSE, AIReason |-> FALSE, AISuggestions |-> <<>>]

\* what sort.Slice leaves (main.go:1895-1903)
IsSortedByDesc(s) == \A i, j \in 1..Len(s) : i < j => ~byDescLess(s[j], s[i])

Batches ==
    {[i \in 1..Len(b) |-> NewTxn(i, b[i])] :
        b \in {c \in SeqsUpTo(CsvRows, MaxBatch) :
                  IsInjective(c) /\ IsSortedByDesc(c)}}

\* rules.yaml: no rule, or one pattern for one category; a rule is
\* <<category, the descriptions its patterns match>>
RuleFiles == {{}, {<<Food, {<<"b">>}>>}}

\* the -below flag
SmallBelows == {0, 1}

\* The descriptions whose Bayesian confidence reaches -bayesian-threshold
HighConfidence == {{}, {<<"b">>}}

\* decision.SuggestedCategories of the advisory service for one transaction:
\* none, or one suggestion that is the empty category
AIDecisions == {<<>>, << <<>> >>}

idleDedup ==
    /\ ptxns = <<>> /\ csvTxns = <<>> /\ dupWithin = 0
    /\ deduped = <<>> /\ reported = 0 /\ dpc = "off"

Init ==
    /\ idleDedup
    /\ idleRank /\ idleSan /\ idleTrain /\ idleFmt /\ idleCsv
    /\ txns \in Batches
    /\ tf = 1
    /\ disk = {[name |-> 1, bucket |-> {}]}       \* main.go:1811-1823
    /\ pc = "rules"
    /\ cursor = 0
    /\ res = ""
    /\ view = "hits" /\ label = Default /\ category = <<>> /\ repeat = FALSE
    /\ upto = 0
    /\ out = <<>>
    /\ putKeys = {}
    /\ committed = {}

Keys(s) == {s[i].Key : i \in 1..Len(s)}

Commit(cm, t) ==
    {c \in cm : c.Key # t.Key} \cup {[Key |-> t.Key, To |-> t.To, From |-> t.From]}

RECURSIVE CommitAll(_, _, _, _)
CommitAll(cm, tx, lo, hi) ==
    IF lo > hi THEN cm ELSE CommitAll(Commit(cm, tx[lo]), tx, lo + 1, hi)

freshLocals ==
    /\ view' = "hits" /\ label' = Default /\ category' = <<>> /\ repeat' = FALSE

-----------------------------------------------------------------------------
(* The categorizers that run before the review *)

\* matchesCategory (main.go:1010-1021)
matchesCategory(rules, t) ==
    LET cats == {r[1] : r \in {q \in rules : t.Desc \in q[2]}}
    IN  IF cats = {} THEN <<>> ELSE CHOOSE c \in cats : TRUE

\* the transaction categorizeByRules writes for t (main.go:1027-1034)
ruled(rules, t) ==
    IF t.Cur > 0
    THEN [t EXCEPT !.From = matchesCategory(rules, t)]
    ELSE [t EXCEPT !.To = matchesCategory(rules, t)]

\* categorizeByRules (main.go:1000-1041)
CategorizeByRules ==
    /\ pc = "rules"
    /\ \E rules \in RuleFiles :
          LET hit(t)  == Len(matchesCategory(rules, t)) > 0
              miss(t) == ~hit(t)
              put     == SelectSeq(txns, hit)
              written == [i \in 1..Len(put) |-> ruled(rules, put[i])]
          IN  /\ disk' = writeAll(disk, written, 1, Len(written))
              /\ putKeys' = putKeys \cup Keys(written)
              /\ txns' = SelectSeq(txns, miss)
    /\ pc' = "below"
    /\ UNCHANGED <<tf, cursor, res, view, label, category, repeat, upto, out,
                   committed>>
    /\ UNCHANGED notMainVars

\* categorizeBelow (main.go:968-987)
CategorizeBelow ==
    /\ pc = "below"
    /\ \E smallBelow \in SmallBelows :
          LET small(t) == t.Cur < 0 /\ t.Cur >= -smallBelow
              other(t) == ~small(t)
              put      == SelectSeq(txns, small)
              written  == [i \in 1..Len(put) |-> [put[i] EXCEPT !.To = Small]]
          IN  /\ disk' = writeAll(disk, written, 1, Len(written))
              /\ putKeys' = putKeys \cup Keys(written)
              /\ txns' = SelectSeq(txns, other)
    /\ pc' = "ai"
    /\ UNCHANGED <<tf, cursor, res, view, label, category, repeat, upto, out,
                   committed>>
    /\ UNCHANGED notMainVars

\* main.go:1420-1429: a high-confidence transaction
bayesian(t) ==
    IF t.Cur > 0
    THEN [t EXCEPT !.From = topHits(t.Desc)[1], !.AIReason = TRUE]
    ELSE [t EXCEPT !.To = topHits(t.Desc)[1], !.AIReason = TRUE]

\* main.go:1494-1505: a transaction with the decision d of the service
advised(t, d) ==
    IF t.Cur > 0
    THEN [t EXCEPT !.AISuggestions = d, !.AIReason = TRUE, !.From = d[1]]
    ELSE [t EXCEPT !.AISuggestions = d, !.AIReason = TRUE, !.To = d[1]]

\* main.go:1479-1507: the low-confidence transactions from index i on
RECURSIVE reviewed(_, _, _)
reviewed(low, dec, i) ==
    IF i > Len(low) THEN <<>>
    ELSE IF Len(dec[i]) = 0 THEN reviewed(low, dec, i + 1)      \* continue
    ELSE <<advised(low[i], dec[i])>> \o reviewed(low, dec, i + 1)

\* processAIReview (main.go:1374-1521) on batch tx, with the descriptions
\* high of high confidence and the decisions dec for the others
processAIReview(tx, high, dec) ==
    LET isHigh(t) == t.Desc \in high
        isLow(t)  == ~isHigh(t)
        hi == SelectSeq(tx, isHigh)
        lo == SelectSeq(tx, isLow)
    IN  [i \in 1..Len(hi) |-> bayesian(hi[i])] \o reviewed(lo, dec, 1)

\* main.go:1908-1945 with -ai-review, up to the first prompt of
\* showAndCategorizeTxns
ProcessAIReview ==
    /\ pc = "ai"
    /\ \E high \in HighConfidence :
          LET isLow(t) == t.Desc \notin high
              n == Len(SelectSeq(txns, isLow))
          IN  \E dec \in [1..n -> AIDecisions] :
                  txns' = classifyAll(processAIReview(txns, high, dec))
    /\ pc' = "prompt"
    /\ UNCHANGED <<disk, tf, cursor, res, view, label, category, repeat, upto,
                   out, putKeys, committed>>
    /\ UNCHANGED notMainVars

\* main.go:1908, 1945 without -ai-review
SkipAIReview ==
    /\ pc = "ai"
    /\ txns' = classifyAll(txns)
    /\ pc' = "prompt"
    /\ UNCHANGED <<disk, tf, cursor, res, view, label, category, repeat, upto,
                   out, putKeys, committed>>
    /\ UNCHANGED notMainVars

-----------------------------------------------------------------------------
(* showAndCategorizeTxns: one step per key read from the terminal *)

\* The review loop with the session over once the cursor leaves the batch
GotoEndsSession(i, tx) ==
    /\ IF i < Len(tx) /\ i >= 0
       THEN pc' = "review" /\ cursor' = i /\ txns' = tx
       ELSE pc' = "finished" /\ cursor' = 0 /\ txns' = classifyAll(tx)
    /\ upto' = 0
    /\ freshLocals

\* the loop with a cursor that stops at the first transaction
GotoClamped(i, tx) ==
    /\ IF i < Len(tx)
       THEN pc' = "review" /\ cursor' = (IF i < 0 THEN 0 ELSE i) /\ txns' = tx
       ELSE pc' = "prompt" /\ cursor' = 0 /\ txns' = classifyAll(tx)
    /\ upto' = 0
    /\ freshLocals

\* The review loop with the cursor at i (main.go:899): the next transaction
\* is shown, or the loop ends, i goes out of scope, and the batch is
\* classified and listed again (main.go:862-870).
Goto(i, tx) ==
    /\ IF i < Len(tx) /\ i >= 0
       THEN pc' = "review" /\ cursor' = i /\ txns' = tx
       ELSE pc' = "prompt" /\ cursor' = 0 /\ txns' = classifyAll(tx)
    /\ upto' = 0
    /\ freshLocals

\* main.go:901-923: categorizeTxn has returned r for transaction i, the
\* batch being tx, the files dk, and pk, cm the history.
Returned(r, tx, dk, pk, cm) ==
    /\ res' = r
    /\ IF r = "1.0"
       THEN LET a == applyToSimilarTxns(tx, cursor)
         IN  IF a.upto = cursor + 1
             THEN /\ \E n \in IntOf(r) : Goto(WrapInt(cursor + n), tx)
                  /\ disk' = dk /\ putKeys' = pk /\ committed' = cm
             ELSE /\ txns' = a.txns
                  /\ disk' = writeAll(dk, a.txns, cursor + 2, a.upto)
                  /\ putKeys' = pk \cup {a.txns[j].Key : j \in (cursor + 2)..a.upto}
                  /\ committed' = CommitAll(cm, a.txns, cursor + 2, a.upto)
                  /\ upto' = a.upto
                  /\ pc' = "similar"
                  /\ cursor' = cursor
                  /\ freshLocals
       ELSE /\ \E n \in IntOf(r) : Goto(WrapInt(cursor + n), tx)
            /\ disk' = dk /\ putKeys' = pk /\ committed' = cm

\* main.go:832-839: printAndGetResult has returned r; from the
\* per-transaction shortcuts math.MaxFloat32 leads to a second call with *short.
Result(r, tx, dk, pk, cm) ==
    IF view = "hits" /\ r = "MaxFloat32"
    THEN /\ pc' = "review"
         /\ view' = "all" /\ label' = Default /\ category' = <<>> /\ repeat' = FALSE
         /\ txns' = tx /\ disk' = dk /\ putKeys' = pk /\ committed' = cm
         /\ UNCHANGED <<cursor, upto, res>>
    ELSE Returned(r, tx, dk, pk, cm)

Current == txns[cursor + 1]

\* the condition of main.go:724 with only the To side tested
canCommitToOnly(t) == Len(t.To) > 0

\* main.go:724: len(t.To) > 0 && len(t.From) > 0
canCommit(t) == Len(t.To) > 0 /\ Len(t.From) > 0

\* main.go:724-731, and 733/774 when a side is empty
PressEnter ==
    /\ pc = "review"
    /\ IF canCommit(Current)
       THEN Result(IF repeat THEN "0" ELSE "1.0",
                   [txns EXCEPT ![cursor + 1].Done = TRUE],
                   writeToDB(disk, Current),
                   putKeys \cup {Current.Key},
                   Commit(committed, Current))
       ELSE Result("0", txns, disk, putKeys, committed)
    /\ UNCHANGED <<tf, out>>
    /\ UNCHANGED notMainVars

\* main.go:733-760: a navigation option
Navigate(opt, r) ==
    /\ opt \in Options(view, label, category, Current)
    /\ Result(r, txns, disk, putKeys, committed)
    /\ UNCHANGED <<tf, out>>
    /\ UNCHANGED notMainVars

PressBack ==
    /\ pc = "review"
    /\ Navigate(Back, "-1.0")

PressSkip ==
    /\ pc = "review"
    /\ Navigate(Skip, "1.1")

PressQuit ==
    /\ pc = "review"
    /\ Navigate(Quit, "999999.0")

PressShowAll ==
    /\ pc = "review"
    /\ Navigate(ShowAll, "MaxFloat32")

PressGoogle ==
    /\ pc = "review"
    /\ Navigate(Google, "0")


\* the selected path always on the To side
selectTo(t, c) == [t EXCEPT !.To = Join(c)]

\* main.go:762-767: the transaction with the selected path on its side
select(t, c) ==
    IF t.Cur > 0 THEN [t EXCEPT !.From = Join(c)] ELSE [t EXCEPT !.To = Join(c)]

\* main.go:762-774: a category option
PressCategory ==
    /\ pc = "review"
    /\ \E opt \in Options(view, label, category, Current)
                    \ {Back, Skip, Quit, ShowAll, Google} :
          LET c  == Append(category, opt)
              tx == [txns EXCEPT ![cursor + 1] = select(Current, c)]
          IN  IF HasLabel(view, opt)
              THEN /\ pc' = "review"
                   /\ txns' = tx
                   /\ category' = c
                   /\ label' = opt
                   /\ repeat' = TRUE
                   /\ UNCHANGED <<view, cursor, upto, res, disk, putKeys,
                                  committed>>
              ELSE Result("0", tx, disk, putKeys, committed)
    /\ UNCHANGED <<tf, out>>
    /\ UNCHANGED notMainVars

\* main.go:733, 774: a key no option is bound to
PressOther ==
    /\ pc = "review"
    /\ Result("0", txns, disk, putKeys, committed)
    /\ UNCHANGED <<tf, out>>
    /\ UNCHANGED notMainVars

\* main.go:918-920
AckSimilar ==
    /\ pc = "similar"
    /\ Goto(upto, txns)
    /\ UNCHANGED <<res, disk, tf, out, putKeys, committed>>
    /\ UNCHANGED notMainVars

\* main.go:870-875, 899: any answer but n and q starts a review pass
AcceptReview ==
    /\ pc = "prompt"
    /\ Goto(0, txns)
    /\ res' = ""
    /\ UNCHANGED <<disk, tf, out, putKeys, committed>>
    /\ UNCHANGED notMainVars

\* main.go:873-875, 1947-1959: n or q ends showAndCategorizeTxns and the
\* stage is written out
DeclineReview ==
    /\ pc = "prompt"
    /\ out' \in SortByTime(iterateDB(Stage))
    /\ pc' = "finished"
    /\ res' = ""
    /\ UNCHANGED <<txns, disk, tf, cursor, view, label, category, repeat,
                   upto, putKeys, committed>>
    /\ UNCHANGED notMainVars

\* the deferred os.Remove(tf.Name()) (main.go:1813)
Exit ==
    /\ pc = "finished"
    /\ disk' = {f \in disk : f.name # tf}
    /\ pc' = "exited"
    /\ UNCHANGED <<txns, tf, cursor, res, view, label, category, repeat, upto,
                   out, putKeys, committed>>
    /\ UNCHANGED notMainVars

Running == {"rules", "below", "ai", "prompt", "review", "similar"}

\* The process is killed: memory is lost, the files stay (no deferred call
\* runs).
Crash ==
    /\ pc \in Running
    /\ pc' = "crashed"
    /\ txns' = <<>>
    /\ cursor' = 0
    /\ res' = ""
    /\ upto' = 0
    /\ freshLocals
    /\ UNCHANGED <<disk, tf, out, putKeys, committed>>
    /\ UNCHANGED notMainVars

\* The program is started again (main.go:1811-1823): os.CreateTemp makes a
\* new file and the bucket is created in it.
Restart ==
    /\ pc = "crashed"
    /\ tf' = tf + 1
    /\ disk' = disk \cup {[name |-> tf + 1, bucket |-> {}]}
    /\ pc' = "restarted"
    /\ UNCHANGED <<txns, cursor, res, view, label, category, repeat, upto, out,
                   putKeys, committed>>
    /\ UNCHANGED notMainVars

Next ==
    \/ CategorizeByRules
    \/ CategorizeBelow
    \/ ProcessAIReview
    \/ SkipAIReview
    \/ AcceptReview
    \/ DeclineReview
    \/ PressEnter
    \/ PressBack
    \/ PressSkip
    \/ PressQuit
    \/ PressShowAll
    \/ PressGoogle
    \/ PressCategory
    \/ PressOther
    \/ AckSimilar
    \/ Exit
    \/ Crash
    \/ Restart

Spec == Init /\ [][Next]_vars

-----------------------------------------------------------------------------
(* Properties of removeDuplicates *)

Range(s) == {s[i] : i \in 1..Len(s)}

Count(s, v) == Cardinality({i \in 1..Len(s) : s[i] = v})

IsSortedByTime(s) == \A i, j \in 1..Len(s) : i < j => s[i].Date <= s[j].Date

\* The entries of journal p inside the window of the candidates cand: those
\* dated after (earliest candidate date - 24h), or all of p when none is.
WindowOf(p, cand) ==
    LET first == CHOOSE d \in {cand[i].Date : i \in 1..Len(cand)} :
                     \A i \in 1..Len(cand) : d <= cand[i].Date
        late  == {h \in Range(p) : h.Date > first - WindowHours}
    IN  IF late = {} THEN Range(p) ELSE late

SameTxn(h, t, allowed) ==
    /\ sanitize(h.Desc) = sanitize(t.Desc)
    /\ Abs(h.Cur) = Abs(t.Cur)
    /\ Abs(h.Date - t.Date) <= allowed

IsDuplicate(p, cand, t, allowed) ==
    \E h \in WindowOf(p, cand) : SameTxn(h, t, allowed)

\* C7: removeDuplicates returns, in ascending date order, exactly the
\* candidates that no journal entry of the window matches on sanitized
\* description, absolute amount and date within the tolerance, scanning the
\* whole window or stopping early alike; it reports how many it removed; an
\* empty candidate list comes back unchanged.
C7_RemovesExactlyWindowDuplicates ==
    dpc = "done" =>
        /\ IsSortedByTime(deduped)
        /\ \A t \in Range(csvTxns) \cup Range(deduped) :
              Count(deduped, t) =
                  IF IsDuplicate(ptxns, csvTxns, t, dupWithin)
                  THEN 0 ELSE Count(csvTxns, t)
        /\ reported =
              Cardinality({i \in 1..Len(csvTxns) :
                  IsDuplicate(ptxns, csvTxns, csvTxns[i], dupWithin)})
        /\ (csvTxns = <<>> => deduped = csvTxns)

\* A run where one candidate is dropped, one is kept, and the scan for the
\* kept one stops early at a journal entry dated after its date + tolerance.
C7_Witness ==
    /\ dpc = "done"
    /\ Len(csvTxns) = 2
    /\ Len(deduped) = 1
    /\ reported = 1
    /\ \E h \in Range(ptxns) : h.Date > deduped[1].Date + dupWithin

\* Is candidate t dropped from cand against journal p ?
Drops(p, cand, t, allowed) ==
    LET ps == CHOOSE s \in SortByTime(p) : TRUE
        cs == CHOOSE s \in SortByTime(cand) : TRUE
    IN  t \notin Range(removeDuplicates(ps, cs, allowed))

\* Journal p with its i-th entry moved to the other side of t, as far away.
Mirrored(p, i, t) == [p EXCEPT ![i].Date = 2 * t.Date - p[i].Date]

\* C8: tolerance is symmetric: with a journal entry of equal sanitized
\* description and equal absolute amount dated d before a candidate, the
\* candidate is dropped iff it is dropped with that entry dated d after it,
\* whatever else the journal holds.
C8_ToleranceSymmetric ==
    \A k \in 1..Len(csvTxns) : \A i \in 1..Len(ptxns) :
        LET t == csvTxns[k]
            h == ptxns[i]
        IN  (/\ sanitize(h.Desc) = sanitize(t.Desc)
             /\ Abs(h.Cur) = Abs(t.Cur))
            => (Drops(ptxns, csvTxns, t, dupWithin)
                  <=> Drops(Mirrored(ptxns, i, t), csvTxns, t, dupWithin))

-----------------------------------------------------------------------------
(* Properties of the stage *)

InSession == pc \in {"prompt", "review", "similar", "finished"}

\* scanAll: the transactions iterateDB hands back
scanAll == Range(iterateDB(Stage))

BothSides(r) == Len(r.To) > 0 /\ Len(r.From) > 0

\* C1: once every transaction of the batch has been committed interactively
\* (each marked done by Enter or by propagation), scanAll returns every one
\* of them with done = true and both sides non-empty.
C1_FullyCategorizedAllDone ==
    (/\ InSession
     /\ Len(txns) > 0
     /\ \A i \in 1..Len(txns) : txns[i].Done)
    => \A i \in 1..Len(txns) :
          \E r \in scanAll : r.Key = txns[i].Key /\ r.Done /\ BothSides(r)

\* C2: at every point of a run every transaction stored in the stage has a
\* non-empty To and a non-empty From, whichever writer stored it, so a run
\* stopped at any point leaves only such records.
C2_StageHoldsBothSides ==
    \A f \in disk : \A r \in f.bucket : BothSides(r)

\* A run killed with the stage holding a record of the small-amount
\* categorizer and a record of an Enter commit.
C2_Witness ==
    /\ pc = "crashed"
    /\ \E r \in Stage : r.To = Small
    /\ \E r \in Stage : r.Key \in {c.Key : c \in committed}

\* C3: whenever the cursor has moved on after a commit, past the committed
\* transaction or past the block it was propagated to, the stage holds,
\* under the key of each, a record with the committed To and From.
C3_CommitPersistedBeforeAdvance ==
    pc \in {"prompt", "review", "similar"} =>
        \A c \in committed :
            \E r \in Stage : r.Key = c.Key /\ r.To = c.To /\ r.From = c.From

\* The cursor past a block of two: the committed transaction and the one it
\* was propagated to.
C3_Witness ==
    /\ pc = "review"
    /\ cursor = 2
    /\ res = "1.0"
    /\ txns[1].Done /\ txns[2].Done
    /\ {txns[1].Key, txns[2].Key} \subseteq {c.Key : c \in committed}

\* C4: when the process has stopped after decisions were persisted and the
\* program is started again, the stage it opens returns exactly those
\* committed decisions, unchanged, and nothing else.
C4_ReopenReturnsCommitted ==
    pc = "restarted" =>
        /\ \A c \in committed :
              \E r \in scanAll : r.Key = c.Key /\ r.To = c.To /\ r.From = c.From
        /\ {r.Key : r \in scanAll} = putKeys

\* C5: when the session ends through the prompt, the output holds exactly
\* the stage contents, one entry for every key ever put in the run, none
\* twice, in non-decreasing date order, every committed decision among them.
C5_OutputIsStageByDate ==
    pc = "finished" =>
        /\ Range(out) = Stage
        /\ Len(out) = Cardinality(Stage)
        /\ Keys(out) = putKeys
        /\ Len(out) = Cardinality(putKeys)
        /\ IsSortedByTime(out)
        /\ \A c \in committed :
              \E i \in 1..Len(out) :
                  out[i].Key = c.Key /\ out[i].To = c.To /\ out[i].From = c.From

\* A finished run whose output is not in key order: the sort by date moved
\* an entry, and an Enter commit is among the entries.
C5_Witness ==
    /\ pc = "finished"
    /\ Len(out) >= 2
    /\ out[1].Key > out[2].Key
    /\ committed # {}

-----------------------------------------------------------------------------
(* Properties of the review loop *)

\* same letters-only description and same amount sign
Similar(t, u) ==
    /\ lettersOnly(t.Desc) = lettersOnly(u.Desc)
    /\ (t.Cur < 0) <=> (u.Cur < 0)

\* The first index (0-based) past the run of transactions that follow
\* transaction i of tx and are similar to it.
RunEnd(tx, i) ==
    CHOOSE j \in (i + 1)..Len(tx) :
        /\ \A k \in (i + 1)..(j - 1) : Similar(tx[i + 1], tx[k + 1])
        /\ (j = Len(tx) \/ ~Similar(tx[i + 1], tx[j + 1]))

\* the side a category goes to
Side(t) == IF t.Cur > 0 THEN t.From ELSE t.To

\* The step shows transaction i next, or ends the pass when there is none.
Lands(i) ==
    IF i \in 0..(Len(txns) - 1)
    THEN pc' = "review" /\ cursor' = i
    ELSE pc' = "prompt"

Stays == pc' = "review" /\ cursor' = cursor

Persisted(t) ==
    \E r \in Stage' : r.Key = t.Key /\ r.To = t.To /\ r.From = t.From

SameDone == \A k \in 1..Len(txns) : txns'[k].Done = txns[k].Done

\* C6: an Enter commit of transaction i at the root level gives every
\* transaction of the contiguous run of similar transactions after i the
\* category of i on the side its sign selects, marks it done and persists
\* it, touches nothing past the run, and the cursor goes to the first index
\* past the run once the notice is acknowledged; with an empty run the
\* cursor goes to i + 1.
C6_PropagateSimilar ==
    [][/\ (PressEnter /\ ~repeat /\ BothSides(Current)) =>
            LET e == RunEnd(txns, cursor)
            IN  IF e = cursor + 1
                THEN Lands(cursor + 1)
                ELSE /\ pc' = "similar"
                     /\ cursor' = cursor
                     /\ upto' = e
                     /\ \A k \in (cursor + 2)..e :
                           /\ Side(txns'[k]) = Side(Current)
                           /\ txns'[k].Done
                           /\ txns'[k] \in Stage'
                     /\ \A k \in (e + 1)..Len(txns) : txns'[k] = txns[k]
       /\ (pc = "similar" /\ pc' # "crashed") => Lands(upto)
      ]_vars

\* Three similar transactions: the first committed as Expenses:Food, all
\* three done with that category, the cursor about to go past all three.
C6_Witness ==
    /\ pc = "similar"
    /\ Len(txns) = 3
    /\ cursor = 0
    /\ upto = 3
    /\ \A k \in 1..3 :
          /\ txns[k].Done
          /\ txns[k].To = Food
          /\ \E r \in Stage : r.Key = txns[k].Key /\ r.To = Food

\* C9 as stated: Enter commits only when both sides are non-empty; a commit
\* persists the transaction, marks it done and advances the cursor by +1
\* at the root level and by 0 after a drill-down; Enter with a side empty
\* persists nothing, marks nothing done and leaves the cursor where it is.
C9_EnterAdvancesByOne ==
    [][PressEnter =>
          IF BothSides(Current)
          THEN /\ Persisted(Current)
               /\ txns'[cursor + 1].Done
               /\ IF repeat THEN Stays ELSE Lands(cursor + 1)
          ELSE disk' = disk /\ SameDone /\ Stays
      ]_vars

\* C9, amended: as stated, except that a commit at the root level advances
\* the cursor by +1 only when no similar transaction follows; when similar
\* transactions follow, the cursor waits for the acknowledgement of the
\* propagation notice and then goes to the first index past the propagated
\* block.
C9_EnterCommits ==
    [][PressEnter =>
          IF BothSides(Current)
          THEN /\ Persisted(Current)
               /\ txns'[cursor + 1].Done
               /\ IF repeat THEN Stays
                  ELSE IF RunEnd(txns, cursor) = cursor + 1
                       THEN Lands(cursor + 1)
                       ELSE /\ pc' = "similar"
                            /\ cursor' = cursor
                            /\ upto' = RunEnd(txns, cursor)
          ELSE disk' = disk /\ SameDone /\ Stays
      ]_vars

\* A commit at the root level with a similar transaction behind it: the
\* committed transaction is done and in the stage, and the cursor is about
\* to move by more than one.
C9_Witness ==
    /\ pc = "similar"
    /\ res = "1.0"
    /\ upto > cursor + 1
    /\ txns[cursor + 1].Done
    /\ \E r \in Stage : r.Key = txns[cursor + 1].Key

-----------------------------------------------------------------------------
(* Termination of the session *)

\* showAndCategorizeTxns is entered (main.go:1945)
StartsSession == ProcessAIReview \/ SkipAIReview

\* A step of the review pass, the process not killed, after which no
\* transaction is shown.
LeavesPass ==
    /\ pc \in {"review", "similar"}
    /\ pc' \notin {"review", "similar", "crashed"}

-----------------------------------------------------------------------------
(* Navigation *)

\* C12: every selection of .show all, from the per-transaction shortlist
\* or from the global tree, shows the same transaction again with the global
\* tree and leaves the cursor, the batch and the stage as they are.
C12_ShowAllRedraws ==
    [][PressShowAll =>
          /\ pc' = "review"
          /\ view' = "all"
          /\ cursor' = cursor
          /\ txns' = txns
          /\ disk' = disk
      ]_vars

\* the batch keeps its transactions, in their places
SameBatch ==
    /\ Len(txns') = Len(txns)
    /\ \A k \in 1..Len(txns) : txns'[k].Key = txns[k].Key

\* C13: .back moves the cursor by -1 and .skip by +1 (the pass ends when
\* the cursor leaves the batch); neither writes to the stage nor changes the
\* done flag of any transaction, so a skipped transaction stays in the batch
\* as it was, and every later pass starts again at the first transaction of
\* that same batch.
C13_BackAndSkipOnlyMove ==
    [][/\ PressBack =>
            (Lands(cursor - 1) /\ disk' = disk /\ SameDone /\ SameBatch)
       /\ PressSkip =>
            (Lands(cursor + 1) /\ disk' = disk /\ SameDone /\ SameBatch)
       /\ AcceptReview => (Lands(0) /\ txns' = txns)
      ]_vars

\* The last transaction of a batch of two has just been skipped: the pass
\* is over, the transaction is neither done nor in the stage, and the prompt
\* offers the next pass over the batch.
C13_Witness ==
    /\ pc = "prompt"
    /\ res = "1.1"
    /\ Len(txns) = 2
    /\ ~txns[2].Done
    /\ \A r \in Stage : r.Key # txns[2].Key

-----------------------------------------------------------------------------
(* The stage as a key-value store *)

StageKeys == {r.Key : r \in Stage}

\* C14: a put overwrites what the key held.  After every step of a run that
\* writes, scanAll returns the records of the stage, exactly one per key, and
\* no key has left the stage; after an Enter commit the record under the key
\* of the committed transaction is the value just put, whatever the key held
\* before; and putting a value the stage already holds under that key leaves
\* the stage as it is.
C14_PutOverwrites ==
    [][/\ (pc \in Running /\ pc' \in Running \cup {"finished"}) =>
            \/ disk' = disk /\ tf' = tf
            \/ /\ StageKeys \subseteq StageKeys'
               /\ Len(iterateDB(Stage')) = Cardinality(StageKeys')
               /\ scanAll' = Stage'
       /\ (PressEnter /\ canCommit(Current)) =>
            /\ \A r \in Stage' : r.Key = Current.Key => r = Current
            /\ Current \in Stage'
            /\ (Current \in Stage /\ pc' # "similar") => Stage' = Stage
      ]_vars

\* The first transaction of the batch, which no propagation reaches, has
\* been put by Enter before it was marked done and put again afterwards:
\* the stage holds one record under its key, the later one.
C14_Witness ==
    /\ pc \in {"review", "similar", "prompt"}
    /\ Len(txns) > 0
    /\ \E r \in Stage : r.Key = txns[1].Key /\ r.Done
    /\ Len(iterateDB(Stage)) = Cardinality(StageKeys)

-----------------------------------------------------------------------------
(* topHits: from the scores of the classifier to the shortlist            *)
(*                                                                         *)
(* A score is an integer and the arithmetic is exact.  With n scores of    *)
(* sum S the mean is S / n, so n * (x - mean) = n * x - S, and             *)
(* |gap| > stddev is compared on the squares, times n * n * (n - 1).       *)

MaxClasses == 6     \* classes of the classifier

ScoreVals == (-2)..0

RECURSIVE Sum(_, _)
Sum(f, n) == IF n = 0 THEN 0 ELSE f[n] + Sum(f, n - 1)

\* main.go:416-421, times len(scores): the sum of the scores
meanTimesN(sc) == Sum(sc, Len(sc))

\* main.go:422-425, times len(scores)^2: the sum of the squared diffs
sumSqTimesN2(sc) ==
    Sum([i \in 1..Len(sc) |->
            (Len(sc) * sc[i] - meanTimesN(sc)) * (Len(sc) * sc[i] - meanTimesN(sc))],
        Len(sc))

\* main.go:437: math.Abs(pr.score-last) > stddev, with stddev of
\* main.go:426-427 (divisor len(scores) - 1, then the square root)
beyondStddev(gap, sc) ==
    gap * gap * Len(sc) * Len(sc) * (Len(sc) - 1) > sumSqTimesN2(sc)

\* sort.Sort(byScore(pairs)) (main.go:429, 402): the positions by
\* descending score; the sort is not stable, so equal scores come in any
\* order
RECURSIVE byScore(_, _)
byScore(sc, left) ==
    IF left = {} THEN {<<>>}
    ELSE UNION {{<<q>> \o o : o \in byScore(sc, left \ {q})} :
                   q \in {r \in left : \A t \in left : ~(sc[t] > sc[r])}}

\* every class is a candidate
noCap(n) == n

\* main.go:432: min(len(pairs), 5)
maxResults(n) == IF n < 5 THEN n ELSE 5

\* the score everything is measured from stays the best one
keepFirst(last, score) == last

\* main.go:441: last = pr.score
nextLast(last, score) == score

\* the loop of main.go:433-442 from index i (1-based) on
RECURSIVE walk(_, _, _, _)
walk(sc, pairs, i, last) ==
    IF i > maxResults(Len(pairs)) THEN <<>>
    ELSE IF beyondStddev(sc[pairs[i]] - last, sc) THEN <<>>        \* break
    ELSE <<pairs[i]>> \o walk(sc, pairs, i + 1, nextLast(last, sc[pairs[i]]))

\* topHits (main.go:410-444) on the scores sc: the possible results, as
\* positions in p.classes
topHitsOf(sc) ==
    {walk(sc, pairs, 1, sc[pairs[1]]) : pairs \in byScore(sc, 1..Len(sc))}

\* generateClasses leaves at least two classes (main.go:377), and LogScores
\* returns one score for each
InitRank ==
    /\ idleDedup
    /\ idleMain
    /\ idleSan /\ idleTrain /\ idleFmt /\ idleCsv
    /\ \E n \in 2..MaxClasses : scores \in [1..n -> ScoreVals]
    /\ hits = <<>>
    /\ guess = 0
    /\ rpc = "scored"

\* hits := p.topHits(t.Desc) (main.go:849)
TopHits ==
    /\ rpc = "scored"
    /\ hits' \in topHitsOf(scores)
    /\ rpc' = "ranked"
    /\ UNCHANGED <<scores, guess>>
    /\ UNCHANGED notRankVars

\* hits[0] (main.go:850-854)
ClassifyTxn ==
    /\ rpc = "ranked"
    /\ guess' = hits[1]
    /\ rpc' = "classified"
    /\ UNCHANGED <<scores, hits>>
    /\ UNCHANGED notRankVars

NextRank == TopHits \/ ClassifyTxn

SpecRank == InitRank /\ [][NextRank]_vars

\* the k-th largest score
Kth(sc, k) ==
    CHOOSE v \in Range(sc) :
        /\ Cardinality({i \in 1..Len(sc) : sc[i] > v}) < k
        /\ Cardinality({i \in 1..Len(sc) : sc[i] >= v}) >= k

\* C15: for scores over at least two classes topHits returns between 1 and
\* 5 classes, no class twice, in non-increasing order of score, the first
\* with the largest score of all; and classifyTxn's hits[0] is that class.
C15_ShortlistWellFormed ==
    rpc \in {"ranked", "classified"} =>
        /\ Len(scores) >= 2
        /\ Len(hits) \in 1..5
        /\ \A k \in 1..Len(hits) : hits[k] \in 1..Len(scores)
        /\ \A j, k \in 1..Len(hits) : j # k => hits[j] # hits[k]
        /\ \A j, k \in 1..Len(hits) :
              j < k => scores[hits[j]] >= scores[hits[k]]
        /\ \A i \in 1..Len(scores) : scores[hits[1]] >= scores[i]
        /\ rpc = "classified" => guess = hits[1]

\* Six classes and five of them in the shortlist, the first taken as the
\* guess.
C15_Witness ==
    /\ rpc = "classified"
    /\ Len(scores) = 6
    /\ Len(hits) = 5
    /\ guess = hits[1]
    /\ \E i \in 1..6 : scores[i] < scores[guess]

\* The sample variance by pairs: the sum over i < j of (x_i - x_j)^2 is
\* n * (n - 1) times the variance with divisor n - 1.
PairSq(sc) ==
    Sum([i \in 1..Len(sc) |->
            Sum([j \in 1..Len(sc) |->
                    IF i < j THEN (sc[i] - sc[j]) * (sc[i] - sc[j]) ELSE 0],
                Len(sc))],
        Len(sc))

\* gap is at most one sample standard deviation of sc
WithinStddev(gap, sc) == gap * gap * Len(sc) * (Len(sc) - 1) <= PairSq(sc)

\* C20: the shortlist is the longest prefix of the scores in descending
\* order, of at most 5, in which every score is within one sample standard
\* deviation (divisor n - 1, over all the classes) of the score kept just
\* before it: it stops only at 5, at the last class, or in front of a
\* score further than that from the last one kept.
C20_ChainedTolerance ==
    rpc = "ranked" =>
        LET n == Len(scores)
            m == Len(hits)
        IN  /\ m <= 5
            /\ \A k \in 1..m : scores[hits[k]] = Kth(scores, k)
            /\ \A k \in 2..m :
                  WithinStddev(Kth(scores, k - 1) - Kth(scores, k), scores)
            /\ \/ m = 5
               \/ m = n
               \/ ~WithinStddev(Kth(scores, m) - Kth(scores, m + 1), scores)

\* Three classes kept, each within one standard deviation of the one before
\* it, the third further than that from the best.
C20_Witness ==
    /\ rpc = "ranked"
    /\ Len(hits) = 3
    /\ WithinStddev(scores[hits[1]] - scores[hits[2]], scores)
    /\ WithinStddev(scores[hits[2]] - scores[hits[3]], scores)
    /\ ~WithinStddev(scores[hits[1]] - scores[hits[3]], scores)

-----------------------------------------------------------------------------
(* sanitize on its own *)

\* runes sanitize drops: a space, an underscore, a letter outside ASCII
Others == {" ", "_", "é"}

Runes == Letters \cup Digits \cup Puncts \cup Others

InitSanitize ==
    /\ idleDedup /\ idleMain /\ idleRank /\ idleTrain /\ idleFmt /\ idleCsv
    /\ sanIn \in SeqsUpTo(Runes, MaxDesc)
    /\ sanOut = <<>>
    /\ sanAgain = <<>>
    /\ spc = "in"

\* tdesc := sanitize(t.Desc) (main.go:1564)
Sanitize ==
    /\ spc = "in"
    /\ sanOut' = sanitize(sanIn)
    /\ spc' = "once"
    /\ UNCHANGED <<sanIn, sanAgain>>
    /\ UNCHANGED notSanVars

\* sanitize applied to its own result
SanitizeAgain ==
    /\ spc = "once"
    /\ sanAgain' = sanitize(sanOut)
    /\ spc' = "twice"
    /\ UNCHANGED <<sanIn, sanOut>>
    /\ UNCHANGED notSanVars

NextSanitize == Sanitize \/ SanitizeAgain

SpecSanitize == InitSanitize /\ [][NextSanitize]_vars

\* ASCII letters, digits and * : / . -
Allowed == {"a", "b", "A", "1", "*", ":", "/", ".", "-"}

\* the allowed runes of s, in their order
RECURSIVE Retained(_)
Retained(s) ==
    IF s = <<>> THEN <<>>
    ELSE (IF Head(s) \in Allowed THEN <<Head(s)>> ELSE <<>>) \o Retained(Tail(s))

\* C17: the result of sanitize holds only ASCII letters, digits and the
\* runes * : / . - ; it is the string of the retained runes of the input in
\* their original order, every other rune removed; and sanitize applied to
\* the result returns the result.
C17_SanitizeRetainsAndIdempotent ==
    /\ spc \in {"once", "twice"} =>
          /\ \A i \in 1..Len(sanOut) : sanOut[i] \in Allowed
          /\ sanOut = Retained(sanIn)
    /\ spc = "twice" => sanAgain = sanOut

\* A space between a letter and a dash is removed, and the second
\* application changes nothing.
C17_Witness ==
    /\ spc = "twice"
    /\ sanIn = <<"A", " ", "-">>
    /\ sanOut = <<"A", "-">>
    /\ sanAgain = <<"A", "-">>

-----------------------------------------------------------------------------
(* generateClasses and what main does after it *)

Bank == <<"Assets", "Bank">>
Trip == <<"Assets", "Reimbursements", "Trip">>

\* cols[3] of the journal entries (main.go:206)
JournalTos == {Expenses, Food, Bank, Trip}

\* strings.HasPrefix(to, first + ":") for an account given by its segments
HasPrefix(to, first) == Len(to) > 1 /\ to[1] = first

\* main.go:208-219
skipClassification(to) ==
    IF HasPrefix(to, "Assets") /\ to[2] = "Reimbursements" /\ Len(to) > 2
    THEN FALSE
    ELSE \/ HasPrefix(to, "Assets")
         \/ HasPrefix(to, "Equity")
         \/ HasPrefix(to, "Liabilities")

\* a transaction as parseTransactions appends it (main.go:200-223)
JournalTxns == {[To |-> to, skipClassification |-> skipClassification(to)] :
                   to \in JournalTos}

\* one class is enough
atLeastOne(cl) == Cardinality(cl) > 0

\* main.go:377: len(p.classes) > 1
enough(cl) == Cardinality(cl) > 1

\* tomap of generateClasses (main.go:364-369)
tomap(jr) == {jr[i].To : i \in {k \in 1..Len(jr) : ~jr[k].skipClassification}}

\* main.go:1828-1831: the journal is parsed
InitTrain ==
    /\ idleDedup /\ idleMain /\ idleRank /\ idleSan /\ idleFmt /\ idleCsv
    /\ journal \in SeqsUpTo(JournalTxns, MaxJournal)
    /\ classes = {}
    /\ tpc = "parsed"

\* generateClasses (main.go:362-389); assertf ends the process with
\* log.Fatalf (main.go:156-162)
GenerateClasses ==
    /\ tpc = "parsed"
    /\ classes' = tomap(journal)
    /\ tpc' = IF enough(classes') THEN "trained" ELSE "fatal"
    /\ UNCHANGED journal
    /\ UNCHANGED notTrainVars

\* the first p.cl.LogScores after the training (main.go:412, from 865)
Score ==
    /\ tpc = "trained"
    /\ tpc' = "scored"
    /\ UNCHANGED <<journal, classes>>
    /\ UNCHANGED notTrainVars

\* the prompt of showAndCategorizeTxns (main.go:870)
Review ==
    /\ tpc = "scored"
    /\ tpc' = "review"
    /\ UNCHANGED <<journal, classes>>
    /\ UNCHANGED notTrainVars

NextTrain == GenerateClasses \/ Score \/ Review

SpecTrain == InitTrain /\ [][NextTrain]_vars

\* no two journal entries that are not flagged have different To accounts
FewClasses(jr) ==
    \A i, k \in 1..Len(jr) :
        (~jr[i].skipClassification /\ ~jr[k].skipClassification)
            => jr[i].To = jr[k].To

\* C18: the training ends the program when the journal yields fewer than
\* two classes, a class being a distinct To account of an entry not flagged
\* skipClassification, and only then; after that stop nothing happens, so no
\* description is scored and the review never starts; whenever a
\* description is scored or the review starts there are two classes or more.
C18_FatalBelowTwoClasses ==
    [][/\ tpc # "fatal"
       /\ tpc = "parsed" => (tpc' = "fatal" <=> FewClasses(journal))
       /\ tpc' = "fatal" => tpc = "parsed"
       /\ tpc' \in {"scored", "review"} =>
             (~FewClasses(journal) /\ Cardinality(classes') >= 2)
      ]_vars

\* A journal of three entries with two different To accounts, one of them
\* flagged: one class, and the program has stopped.
C18_Witness ==
    /\ tpc = "fatal"
    /\ Len(journal) = 3
    /\ Cardinality(classes) = 1
    /\ \E i \in 1..3 : journal[i].skipClassification

-----------------------------------------------------------------------------
(* ledgerFormat: the text written to the output file for a transaction    *)
(*                                                                         *)
(* A text is the sequence of its characters; a date is a record of year,   *)
(* month and day; t.Cur is a whole number of hundredths.                   *)

Digit(n) == CASE n = 0 -> "0" [] n = 1 -> "1" [] n = 2 -> "2" [] n = 3 -> "3"
              [] n = 4 -> "4" [] n = 5 -> "5" [] n = 6 -> "6" [] n = 7 -> "7"
              [] n = 8 -> "8" [] n = 9 -> "9"

\* the decimal digits of n
RECURSIVE Dec(_)
Dec(n) == IF n < 10 THEN <<Digit(n)>> ELSE Dec(n \div 10) \o <<Digit(n % 10)>>

\* n in w digits or more, zeros in front
RECURSIVE ZeroPad(_, _)
ZeroPad(n, w) == IF w <= 1 THEN Dec(n)
                 ELSE IF Len(Dec(n)) >= w THEN Dec(n)
                 ELSE <<"0">> \o ZeroPad(n, w - 1)

\* t.Date.Format(stamp), stamp = "2006/01/02" (main.go:63)
DateFormat(d) ==
    ZeroPad(d.y, 4) \o <<"/">> \o ZeroPad(d.m, 2) \o <<"/">> \o ZeroPad(d.d, 2)

\* %-20s: spaces behind up to 20 characters, nothing cut
RECURSIVE Left20(_)
Left20(str) == IF Len(str) >= 20 THEN str ELSE Left20(str \o <<" ">>)

\* %.2f of math.Abs(t.Cur)
Fixed2(cur) == Dec(Abs(cur) \div 100) \o <<".">> \o ZeroPad(Abs(cur) % 100, 2)

\* the historical format the test compares with (main_test.go:20-25)
historical(t) ==
    DateFormat(t.Date) \o <<"\t">> \o t.Desc \o <<"\n">>
    \o <<"\t">> \o Left20(t.To) \o <<"\t">> \o Fixed2(t.Cur) \o t.CurName \o <<"\n">>
    \o <<"\t">> \o t.From \o <<"\n", "\n">>

\* ledgerFormat (main.go:928-938)
ledgerFormat(t) ==
    DateFormat(t.Date) \o <<"\t">> \o t.Desc \o <<"\n">>
    \o (IF Len(t.AIReason) > 0
        THEN <<" ", " ", " ", " ", ";", " ">> \o t.AIReason \o <<"\n">>
        ELSE <<>>)
    \o <<"\t">> \o Left20(t.To) \o <<"\t">>
    \o t.CurName \o <<" ">> \o Fixed2(t.Cur) \o <<"\n">>
    \o <<"\t">> \o t.From \o <<"\n", "\n">>

FmtTxns ==
    [Date     : {[y |-> 2013, m |-> 2, d |-> 3], [y |-> 2024, m |-> 12, d |-> 31]},
     Desc     : {<<"P", "a", "y", "e", "e">>, <<"T", "e", "a">>},
     To       : {<<"A", ":", "C">>, <<"E", ":", "F">>},
     From     : {<<"E", ":", "F">>, <<"A", ":", "C">>},
     Cur      : {1583, -5, -120000},
     CurName  : {<<"U", "S", "D">>},
     AIReason : {<<>>, <<"f", "o", "o", "d">>}]

InitFormat ==
    /\ idleDedup /\ idleMain /\ idleRank /\ idleSan /\ idleTrain /\ idleCsv
    /\ fmtTxn \in FmtTxns
    /\ fmtOut = <<>>
    /\ fpc = "in"

\* of.WriteString(ledgerFormat(t)) (main.go:1954)
LedgerFormat ==
    /\ fpc = "in"
    /\ fmtOut' = ledgerFormat(fmtTxn)
    /\ fpc' = "out"
    /\ UNCHANGED fmtTxn
    /\ UNCHANGED notFmtVars

NextFormat == LedgerFormat

SpecFormat == InitFormat /\ [][NextFormat]_vars

\* C19: for every transaction the text ledgerFormat writes by default is
\* the text of the historical fixed format: the date and the description on
\* the first line, the To account followed by the absolute amount and the
\* currency on the second, the From account on the third, then an empty line.
C19_DefaultEqualsHistorical ==
    fpc = "out" => fmtOut = historical(fmtTxn)

-----------------------------------------------------------------------------
(* Propagation, drill-down and the Browsing pass *)

\* C21: every commit propagates: whenever Enter commits a transaction, at
\* the root level or after a drill-down, the similar transactions that
\* follow it have its category on the side their sign selects, are done and
\* are in the stage once the step is over.
C21_EveryCommitPropagates ==
    [][(PressEnter /\ BothSides(Current)) =>
          \A k \in (cursor + 2)..RunEnd(txns, cursor) :
              /\ Side(txns'[k]) = Side(Current)
              /\ txns'[k].Done
              /\ \E r \in Stage' : r.Key = txns'[k].Key
      ]_vars

\* C22: selecting a category label appends it to the path in progress and
\* puts the joined path on the To side of the transaction when the amount is
\* negative and on the From side when it is positive, the other side and
\* every other transaction left alone; nothing is written to the stage and
\* no done flag changes; the cursor stays, and when the label has children
\* in the tree in use the prompt goes one level deeper under that label with
\* the path kept.
C22_CategoryAssignsSide ==
    [][PressCategory =>
          \E opt \in Options(view, label, category, Current)
                        \ {Back, Skip, Quit, ShowAll, Google} :
              LET path == Append(category, opt)
              IN  /\ Current.Cur < 0 =>
                        txns'[cursor + 1] = [Current EXCEPT !.To = Join(path)]
                  /\ Current.Cur > 0 =>
                        txns'[cursor + 1] = [Current EXCEPT !.From = Join(path)]
                  /\ Len(txns') = Len(txns)
                  /\ \A k \in 1..Len(txns) :
                        k # cursor + 1 => txns'[k] = txns[k]
                  /\ disk' = disk
                  /\ SameDone
                  /\ pc' = "review"
                  /\ cursor' = cursor
                  /\ IF HasLabel(view, opt)
                     THEN /\ category' = path /\ label' = opt
                          /\ repeat' /\ view' = view
                     ELSE category' = <<>> /\ ~repeat'
      ]_vars

\* One level down in the global tree: Expenses selected for a receipt, its
\* From side set to it, nothing done or staged for it.
C22_Witness ==
    /\ pc = "review"
    /\ view = "all"
    /\ repeat
    /\ category = <<Expenses>>
    /\ Current.Cur > 0
    /\ Current.From = Expenses
    /\ Current.To = Account
    /\ ~Current.Done
    /\ \A r \in Stage : r.Key # Current.Key

\* transactions with the same letters-only description lie next to one
\* another
Clustered(s) ==
    \A i, j, k \in 1..Len(s) :
        (i < j /\ j < k /\ lettersOnly(s[i].Desc) = lettersOnly(s[k].Desc))
            => lettersOnly(s[j].Desc) = lettersOnly(s[i].Desc)

\* C24: from the first prompt of the review on, the batch is ordered by
\* letters-only description and then by date, as the sort left it, and the
\* transactions with the same letters-only description are contiguous:
\* the categorizers by rules and by amount and the AI review, which run
\* between the sort and the loop, keep that order.
C24_BatchStaysSorted ==
    pc \in {"prompt", "review", "similar"} =>
        (IsSortedByDesc(txns) /\ Clustered(txns))

\* C25: the AI review hands every transaction it was given on to the manual
\* review, each exactly once, whatever the service answered: the batch has
\* the same keys, as many as before.
C25_AIReviewKeepsAll ==
    [][ProcessAIReview =>
          /\ Len(txns') = Len(txns)
          /\ Keys(txns') = Keys(txns)
      ]_vars

\* C26: propagation does not look at the done flag. A root-level Enter
\* commit of transaction i gives every transaction of the similar run after
\* i that is already done, whatever category it was committed with, the
\* category of i on the side its sign selects, and the stage then holds
\* that transaction with the new category and no record of the old one.
C26_PropagationIgnoresDone ==
    [][(PressEnter /\ ~repeat /\ BothSides(Current)) =>
          \A k \in (cursor + 2)..RunEnd(txns, cursor) :
              txns[k].Done =>
                  /\ Side(txns'[k]) = Side(Current)
                  /\ txns'[k].Done
                  /\ \A r \in Stage' :
                        r.Key = txns[k].Key => Side(r) = Side(Current)
                  /\ \E r \in Stage' : r.Key = txns[k].Key
      ]_vars

\* The transaction under the cursor is about to be committed at the root
\* level with a category that the next transaction, similar to it, done and
\* in the stage, does not have.
C26_Witness ==
    /\ pc = "review" /\ ~repeat /\ BothSides(Current)
    /\ RunEnd(txns, cursor) > cursor + 1
    /\ txns[cursor + 2].Done
    /\ Side(txns[cursor + 2]) # Side(Current)
    /\ \E r \in Stage : /\ r.Key = txns[cursor + 2].Key
                        /\ Side(r) = Side(txns[cursor + 2])

\* C27: when a review pass ends and the batch is listed again, a transaction
\* that is done or carries an advisory reason keeps both its categories;
\* every other transaction gets the classifier's top hit on the side its
\* amount sign selects and keeps its other side, so a category selected
\* during the pass and not committed with Enter is gone.
C27_BrowsingResetsUncommitted ==
    [][(LeavesPass /\ pc' = "prompt") =>
          /\ Len(txns') = Len(txns)
          /\ \A k \in 1..Len(txns) :
                LET t == txns[k]
                    u == txns'[k]
                IN  /\ u.Key = t.Key
                    /\ (u.Done \/ t.AIReason) =>
                           u.To = t.To /\ u.From = t.From
                    /\ ~(u.Done \/ t.AIReason) =>
                           /\ Side(u) = topHits(t.Desc)[1]
                           /\ t.Cur < 0 => u.From = t.From
                           /\ t.Cur > 0 => u.To = t.To
      ]_vars

\* The last transaction of the batch is shown with a category selected in
\* this pass, not the classifier's top hit, and not committed; an earlier
\* transaction is done with a category that is not the top hit either.
C27_Witness ==
    /\ pc = "review"
    /\ cursor = Len(txns) - 1
    /\ ~Current.Done /\ ~Current.AIReason
    /\ Side(Current) # topHits(Current.Desc)[1]
    /\ \E k \in 1..cursor :
          txns[k].Done /\ Side(txns[k]) # topHits(txns[k].Desc)[1]

-----------------------------------------------------------------------------
(* The window of removeDuplicates and the tolerance *)

\* C28: whatever the tolerance, every journal entry that matches some
\* candidate on sanitized description and absolute amount and is dated
\* within the tolerance of it is among the entries removeDuplicates scans:
\* the lower bound of earliest candidate date - 24h hides no such entry.
C28_WindowCoversTolerance ==
    (dpc = "done" /\ Len(csvTxns) > 0) =>
        LET cand == CHOOSE c \in SortByTime(csvTxns) : TRUE
            prev == prevOf(ptxns, cand[1].Date - WindowHours)
        IN  \A h \in Range(ptxns) :
                (\E t \in Range(csvTxns) : SameTxn(h, t, dupWithin))
                    => h \in Range(prev)

\* C29: a journal entry is not used up by a match and candidates are not
\* compared with one another. Every candidate that some scanned journal
\* entry matches on sanitized description, absolute amount and date within
\* the tolerance is dropped, however many candidates one entry matches;
\* a candidate that no scanned entry matches is kept as many times as it
\* occurs among the candidates.
C29_MatchDoesNotConsume ==
    (dpc = "done" /\ Len(csvTxns) > 0) =>
        LET cand == CHOOSE c \in SortByTime(csvTxns) : TRUE
            prev == prevOf(ptxns, cand[1].Date - WindowHours)
        IN  /\ \A h \in Range(prev) : \A t \in Range(csvTxns) :
                  SameTxn(h, t, dupWithin) => t \notin Range(deduped)
            /\ \A t \in Range(csvTxns) :
                  (\A h \in Range(prev) : ~SameTxn(h, t, dupWithin))
                      => Count(deduped, t) = Count(csvTxns, t)

\* One journal entry and two candidates on different dates, both dropped.
C29_Witness ==
    /\ dpc = "done"
    /\ Len(ptxns) = 1
    /\ Len(csvTxns) = 2
    /\ csvTxns[1] # csvTxns[2]
    /\ deduped = <<>>
    /\ reported = 2

-----------------------------------------------------------------------------
(* converter (csv.go): the reader between ledger's csv output and          *)
(* encoding/csv.  A byte is a one-character string.                        *)

Quote == "\""
Backslash == "\\"
Newline == "\n"

Bytes == {Quote, Backslash, "n", "a"}

Min(a, b) == IF a < b THEN a ELSE b

\* csv.go:49-76: what the byte next gives in state st: the bytes it puts
\* out (for st = "escape": into c.escaped) and the state it leaves.
switch(st, next) ==
    CASE st = "start" ->
            [out |-> <<next>>, s |-> IF next = Quote THEN "quoted" ELSE "start"]
      [] st = "quoted" ->
            IF next = Quote THEN [out |-> <<next>>, s |-> "start"]
            ELSE IF next = Backslash THEN [out |-> <<>>, s |-> "escape"]
            ELSE [out |-> <<next>>, s |-> "quoted"]
      [] st = "escape" ->
            [out |-> IF next = Quote THEN <<Quote, Quote>>
                     ELSE IF next = "n" THEN <<Newline>>
                     ELSE <<next>>,
             s   |-> "quoted"]

\* csv.go:45-81: the loop of Read with p[:i] filled so far, len(p) = n; it
\* ends when p is full or c.remaining is empty and, in state escape, at
\* once after the byte is taken.
RECURSIVE fill(_, _, _, _)
fill(p, rem, st, n) ==
    IF ~(Len(p) < n /\ Len(rem) # 0)
    THEN [p |-> p, remaining |-> rem, escaped |-> <<>>, s |-> st]
    ELSE LET c == switch(st, Head(rem))
         IN  IF st = "escape"
             THEN [p |-> p, remaining |-> Tail(rem), escaped |-> c.out,
                   s |-> c.s]
             ELSE fill(p \o c.out, Tail(rem), c.s, n)

\* c.delegate.Read(c.buf) (csv.go:39) on a reader that still holds d: what
\* an io.Reader may return, n bytes and whether err is io.EOF.  The last
\* bytes come with io.EOF or with nil, io.EOF then coming with n = 0.
delegateRead(d) ==
    IF Len(d) = 0 THEN {[n |-> 0, eof |-> TRUE]}
    ELSE {[n |-> k, eof |-> FALSE] : k \in 1..Min(Len(d), BufLen)}
         \cup (IF Len(d) <= BufLen THEN {[n |-> Len(d), eof |-> TRUE]} ELSE {})

InitCsv ==
    /\ idleDedup /\ idleMain /\ idleRank /\ idleSan /\ idleTrain /\ idleFmt
    /\ csvInput \in SeqsUpTo(Bytes, MaxInput)
    /\ delegate = csvInput
    /\ remaining = <<>>
    /\ escaped = <<>>
    /\ cstate = "start"
    /\ received = <<>>
    /\ cpc = "reading"

\* One call of converter.Read (csv.go:31-84) by a caller that appends the n
\* bytes it is given and stops calling at the first io.EOF.
Read ==
    /\ cpc = "reading"
    /\ \E n \in 1..MaxRead :
          IF Len(escaped) # 0
          THEN LET k == Min(n, Len(escaped))
               IN  /\ received' = received \o SubSeq(escaped, 1, k)
                   /\ escaped' = SubSeq(escaped, k + 1, Len(escaped))
                   /\ UNCHANGED <<delegate, remaining, cstate, cpc>>
          ELSE IF Len(remaining) = 0
          THEN \E r \in delegateRead(delegate) :
                  IF r.n = 0
                  THEN /\ cpc' = (IF r.eof THEN "eof" ELSE "reading")
                       /\ UNCHANGED <<delegate, remaining, escaped, cstate,
                                      received>>
                  ELSE LET f == fill(<<>>, SubSeq(delegate, 1, r.n), cstate, n)
                       IN  /\ delegate' = SubSeq(delegate, r.n + 1, Len(delegate))
                           /\ remaining' = f.remaining
                           /\ escaped' = f.escaped
                           /\ cstate' = f.s
                           /\ received' = received \o f.p
                           /\ cpc' = (IF r.eof THEN "eof" ELSE "reading")
          ELSE LET f == fill(<<>>, remaining, cstate, n)
               IN  /\ remaining' = f.remaining
                   /\ escaped' = f.escaped
                   /\ cstate' = f.s
                   /\ received' = received \o f.p
                   /\ UNCHANGED <<delegate, cpc>>
    /\ UNCHANGED csvInput
    /\ UNCHANGED notCsvVars

NextCsv == Read

SpecCsv == InitCsv /\ [][NextCsv]_vars

\* The input converted in one piece: every byte through the switch of
\* csv.go:49-76, from state st on.
RECURSIVE converted(_, _)
converted(in, st) ==
    IF Len(in) = 0 THEN <<>>
    ELSE LET c == switch(st, Head(in))
         IN  c.out \o converted(Tail(in), c.s)

====
